---- MODULE Spec2Model ----
(***************************************************************************)
(* Model of angles_to_config/types.h: the value types of the               *)
(* angles-to-config tool (XYZ, RectBounds, InclusiveBounds, DataOrigin,    *)
(* the measurement records) and the operations they define.                *)
(*                                                                         *)
(* A double is modelled as an IEEE-754 value whose finite magnitudes are   *)
(* exact rationals: a record [k, sg, n, d] with k the class ("fin", "inf", *)
(* "nan"), sg the sign bit (1 or -1, so that +0 and -0 are different       *)
(* values) and n/d the magnitude in lowest terms.  Division by zero,       *)
(* infinities, NaN and signed zeros behave as IEEE-754 prescribes;         *)
(* rounding of finite results is not modelled (finite results are exact).  *)
(***************************************************************************)
EXTENDS Integers, Sequences, FiniteSets, TLC

\* ---------------------------------------------------------------- bounds
MaxCoord == 2     \* coordinates of the points drawn are in -MaxCoord..MaxCoord
MaxCoef == 1      \* plane coefficients drawn are in -MaxCoef..MaxCoef
MaxVal == 2       \* bounds / rectangle values drawn are in -MaxVal..MaxVal
MaxLine == 11     \* line numbers drawn are in 0..MaxLine
MaxSrcLen == 2    \* input source names have at most MaxSrcLen atoms
MaxMeas == 2      \* measurements per pipeline run
MaxAngle == 2     \* pipeline angles (degrees) are in -MaxAngle..MaxAngle

\* ------------------------------------------------------- double arithmetic
Abs(i) == IF i < 0 THEN -i ELSE i

RECURSIVE Gcd(_, _)
Gcd(a, b) == IF b = 0 THEN a ELSE Gcd(b, a % b)

\* the finite double sg * n / d, in lowest terms
Fin(sg, n, d) ==
    LET g == IF n = 0 THEN d ELSE Gcd(n, d)
    IN  [k |-> "fin", sg |-> sg, n |-> n \div g, d |-> d \div g]

Inf(sg) == [k |-> "inf", sg |-> sg, n |-> 0, d |-> 1]
NaN == [k |-> "nan", sg |-> 1, n |-> 0, d |-> 1]

\* the double of an integer literal (0 is +0.0)
D(i) == Fin(IF i < 0 THEN -1 ELSE 1, Abs(i), 1)
NegZero == Fin(-1, 0, 1)

IsNaN(a) == a.k = "nan"
IsInf(a) == a.k = "inf"
IsFin(a) == a.k = "fin"                  \* std::isfinite
IsZero(a) == a.k = "fin" /\ a.n = 0

\* unary minus: flips the sign bit
Neg(a) == IF IsNaN(a) THEN NaN ELSE [a EXCEPT !.sg = -a.sg]

\* a * b
Mul(a, b) ==
    IF IsNaN(a) \/ IsNaN(b) THEN NaN
    ELSE IF (IsInf(a) /\ IsZero(b)) \/ (IsZero(a) /\ IsInf(b)) THEN NaN
    ELSE IF IsInf(a) \/ IsInf(b) THEN Inf(a.sg * b.sg)
    ELSE Fin(a.sg * b.sg, a.n * b.n, a.d * b.d)

\* a / b
Div(a, b) ==
    IF IsNaN(a) \/ IsNaN(b) THEN NaN
    ELSE IF IsInf(a) /\ IsInf(b) THEN NaN
    ELSE IF IsZero(a) /\ IsZero(b) THEN NaN
    ELSE IF IsInf(a) \/ IsZero(b) THEN Inf(a.sg * b.sg)
    ELSE IF IsInf(b) THEN Fin(a.sg * b.sg, 0, 1)
    ELSE Fin(a.sg * b.sg, a.n * b.d, a.d * b.n)

\* a + b (round to nearest: an exact zero sum is +0 unless both are -0)
Add(a, b) ==
    IF IsNaN(a) \/ IsNaN(b) THEN NaN
    ELSE IF IsInf(a) /\ IsInf(b) THEN (IF a.sg = b.sg THEN a ELSE NaN)
    ELSE IF IsInf(a) THEN a
    ELSE IF IsInf(b) THEN b
    ELSE LET num == a.sg * a.n * b.d + b.sg * b.n * a.d
         IN  IF num = 0
             THEN Fin(IF a.sg = -1 /\ b.sg = -1 THEN -1 ELSE 1, 0, 1)
             ELSE Fin(IF num < 0 THEN -1 ELSE 1, Abs(num), a.d * b.d)

\* a < b
Lt(a, b) ==
    IF IsNaN(a) \/ IsNaN(b) THEN FALSE
    ELSE IF IsInf(a) /\ IsInf(b) THEN a.sg < b.sg
    ELSE IF IsInf(a) THEN a.sg = -1
    ELSE IF IsInf(b) THEN b.sg = 1
    ELSE a.sg * a.n * b.d < b.sg * b.n * a.d

\* a == b (NaN equals nothing, -0 equals +0)
Eq(a, b) == ~IsNaN(a) /\ ~IsNaN(b) /\ ~Lt(a, b) /\ ~Lt(b, a)
Le(a, b) == Lt(a, b) \/ Eq(a, b)         \* a <= b
Gt(a, b) == Lt(b, a)                     \* a > b
Ge(a, b) == Le(b, a)                     \* a >= b

\* ------------------------------------------------ angles returned by atan2
\* std::atan2(y, x) as an exact angle: its sign bit sg and the direction
\* (dx, dy) of its magnitude in the upper half plane, in lowest terms:
\* (1, 0) is 0, (0, 1) is pi/2, (-1, 0) is pi.  Two angles are the same double
\* iff they are the same record.
NaNAngle == [k |-> "nan", sg |-> 1, dy |-> 0, dx |-> 0]
Angle(sg, dy, dx) == [k |-> "ang", sg |-> sg, dy |-> dy, dx |-> dx]

Atan2(y, x) ==
    IF IsNaN(y) \/ IsNaN(x) THEN NaNAngle
    ELSE IF IsZero(y) THEN Angle(y.sg, 0, x.sg)
    ELSE IF IsInf(y) THEN Angle(y.sg, 1, IF IsInf(x) THEN x.sg ELSE 0)
    ELSE IF IsInf(x) THEN Angle(y.sg, 0, x.sg)
    ELSE IF IsZero(x) THEN Angle(y.sg, 1, 0)
    ELSE LET yy == y.n * x.d
             xx == x.n * y.d
             g == Gcd(yy, xx)
         IN  Angle(y.sg, yy \div g, x.sg * (xx \div g))

AngleIsZero(a) == a.k = "ang" /\ a.dy = 0 /\ a.dx = 1       \* a == 0.0
AnglePositive(a) == a.k = "ang" /\ a.sg = 1 /\ ~AngleIsZero(a)   \* a > 0.0
AngleNegative(a) == a.k = "ang" /\ a.sg = -1 /\ ~AngleIsZero(a)  \* a < 0.0
AngleNeg(a) == IF a.k = "nan" THEN a ELSE [a EXCEPT !.sg = -a.sg] \* -a

\* ---------------------------------------------------------------- class XYZ
XYZ(px, py, pz) == [x |-> px, y |-> py, z |-> pz]
XYZDefault == XYZ(D(0), D(0), D(0))

\* rotationAboutY with the sign of x lost: atan2(x, -z)
rotationAboutYMirrored(p) == Atan2(p.x, Neg(p.z))

rotationAboutY(p) == Atan2(Neg(p.x), Neg(p.z))

\* the denominator A * x + B * y + C * z, evaluated left to right
PlaneDot(p, A, B, C) == Add(Add(Mul(A, p.x), Mul(B, p.y)), Mul(C, p.z))

\* projectOntoPlane with the sign of D lost: s = D / (Ax + By + Cz)
projectOntoPlaneSign(p, A, B, C, Dc) ==
    LET s == Div(Dc, PlaneDot(p, A, B, C))
    IN  [x |-> Mul(s, p.x), y |-> Mul(s, p.y), z |-> Mul(s, p.z)]

\* projectOntoPlane returning the zero-initialised ret for a zero denominator
projectOntoPlaneGuarded(p, A, B, C, Dc) ==
    LET den == PlaneDot(p, A, B, C)
        s == Div(Neg(Dc), den)
    IN  IF Eq(den, D(0)) THEN XYZDefault
        ELSE [x |-> Mul(s, p.x), y |-> Mul(s, p.y), z |-> Mul(s, p.z)]

\* projectOntoPlane with ret.z computed from y
projectOntoPlaneTypo(p, A, B, C, Dc) ==
    LET s == Div(Neg(Dc), PlaneDot(p, A, B, C))
    IN  [x |-> Mul(s, p.x), y |-> Mul(s, p.y), z |-> Mul(s, p.y)]

projectOntoPlane(p, A, B, C, Dc) ==
    LET s == Div(Neg(Dc), PlaneDot(p, A, B, C))
    IN  [x |-> Mul(s, p.x), y |-> Mul(s, p.y), z |-> Mul(s, p.z)]

\* ---------------------------------------------------- struct RectBounds<T>
RectBounds(l, r, t, b) == [left |-> l, right |-> r, top |-> t, bottom |-> b]

\* reflectedHorizontally negating the edges without exchanging them
reflectedHorizontallyNoSwap(rb) ==
    RectBounds(Neg(rb.left), Neg(rb.right), rb.top, rb.bottom)

reflectedHorizontally(rb) ==
    RectBounds(Neg(rb.right), Neg(rb.left), rb.top, rb.bottom)

\* -------------------------------------------------- class InclusiveBounds<T>
\* InclusiveBounds(): valid_ = false; minVal_ and maxVal_ are not initialised,
\* they hold whatever values m and x the storage held
InclusiveBoundsDefault(m, x) == [valid_ |-> FALSE, minVal_ |-> m, maxVal_ |-> x]

\* the two-argument constructor without the exchange of the arguments
InclusiveBoundsNoSwap(minVal, maxVal) ==
    [valid_ |-> TRUE, minVal_ |-> minVal, maxVal_ |-> maxVal]

\* InclusiveBounds(minVal, maxVal)
InclusiveBounds(minVal, maxVal) ==
    IF Lt(maxVal, minVal)
    THEN [valid_ |-> TRUE, minVal_ |-> maxVal, maxVal_ |-> minVal]
    ELSE [valid_ |-> TRUE, minVal_ |-> minVal, maxVal_ |-> maxVal]

\* operator bool returning true whatever valid_ is
toBoolAlways(b) == TRUE

toBool(b) == b.valid_                                  \* explicit operator bool
contains(b, val) == (~b.valid_) \/ (Ge(val, b.minVal_) /\ Le(val, b.maxVal_))
outside(b, val) == b.valid_ /\ (Lt(val, b.minVal_) \/ Gt(val, b.maxVal_))
getMin(b) == b.minVal_
getMax(b) == b.maxVal_

\* ------------------------------------------------------- stream insertion
\* Text is a sequence of atoms: an atom is one character, or a run of
\* characters that the model never splits ("(unknown)", "unbounded", ", ").
DigitChar(i) == <<"0", "1", "2", "3", "4", "5", "6", "7", "8", "9">>[i + 1]

\* operator<<(std::ostream&, std::size_t): the decimal digits
RECURSIVE FormatSize(_)
FormatSize(n) ==
    IF n < 10 THEN <<DigitChar(n)>>
    ELSE FormatSize(n \div 10) \o <<DigitChar(n % 10)>>

\* operator<<(std::ostream&, double) for the values drawn (integers, zeros,
\* infinities, NaN) on a stream with the default flags
FormatDouble(v) ==
    IF IsNaN(v) THEN <<"n", "a", "n">>
    ELSE (IF v.sg = -1 THEN <<"-">> ELSE <<>>) \o
         (IF IsInf(v) THEN <<"i", "n", "f">> ELSE FormatSize(v.n \div v.d))

\* operator<<(std::ostream&, InclusiveBounds<T> const&)
PrintBounds(b) ==
    <<"[">> \o
    (IF toBool(b)
     THEN FormatDouble(getMin(b)) \o <<", ">> \o FormatDouble(getMax(b))
     ELSE <<"unbounded">>) \o
    <<"]">>

\* --------------------------------------- DataOrigin and the measurements
DataOrigin(inputSource, lineNumber) ==
    [inputSource |-> inputSource, lineNumber |-> lineNumber]

\* known() that also requires a line number
knownWithLine(orig) == orig.inputSource # <<>> /\ orig.lineNumber # 0

known(orig) == orig.inputSource # <<>>       \* !inputSource.empty()

\* operator<<(std::ostream&, DataOrigin const&)
PrintOrigin(orig) ==
    IF known(orig)
    THEN orig.inputSource \o <<":">> \o FormatSize(orig.lineNumber)
    ELSE <<"(unknown)">>

\* InputMeasurement::getOrigin and NormalizedMeasurement::getOrigin
getOrigin(m, parent) == DataOrigin(parent.inputSource, m.lineNumber)

\* ------------------------------------------------------------------- state
VARIABLES
    pt,       \* an XYZ object (the receiver of the calls)
    plane,    \* the plane coefficients <<A, B, C, D>> passed to projectOntoPlane
    ret,      \* <<r>>: r returned by pt.projectOntoPlane(plane); <<>> before the call
    ret2,     \* <<r>>: r returned by ret.projectOntoPlane(plane); <<>> before the call
    rot,      \* <<a>>: a returned by pt.rotationAboutY(); <<>> before the call
    rect,     \* a RectBounds<double> object
    refl,     \* <<r>>: r returned by rect.reflectedHorizontally()
    refl2,    \* <<r>>: r returned by refl.reflectedHorizontally()
    ibArgs,   \* how ib was constructed: <<>> (default) or <<minVal, maxVal>>
    ib,       \* an InclusiveBounds<double> object
    resBool,      \* <<b>>: b returned by static_cast<bool>(ib)
    resContains,  \* <<v, b>>: b returned by ib.contains(v)
    resOutside,   \* <<v, b>>: b returned by ib.outside(v)
    ibOut,    \* <<text>>: the text written by os << ib
    meas,     \* an InputMeasurement or a NormalizedMeasurement
    parent,   \* an InputMeasurements or a NormalizedMeasurements collection
    origin,   \* <<o>>: the DataOrigin o returned by meas.getOrigin(parent)
    resKnown, \* <<b>>: b returned by origin.known()
    orgOut,   \* <<text>>: the text written by os << origin
    cfg,      \* the Config of a run of the pipeline
    input,    \* the InputMeasurements of the run
    norm,     \* the NormalizedMeasurements (<<>> before normalization)
    details,  \* <<d>>: the ScreenDetails d fitted
    proj,     \* <<p>>: the ProjectionDescription p fitted
    mesh,     \* the MeshDescription: a sequence of rows <<from, to>>
    findings, \* the validation findings: a sequence of <<DataOrigin, message>>
    err,      \* the error that ended the run, "" when none
    pc        \* the step the run has reached

xyzVars == <<pt, plane, ret, ret2, rot>>
rectVars == <<rect, refl, refl2>>
ibVars == <<ibArgs, ib, resBool, resContains, resOutside, ibOut>>
orgVars == <<meas, parent, origin, resKnown, orgOut>>
pipeVars == <<cfg, input, norm, details, proj, mesh, findings, err, pc>>
vars == <<xyzVars, rectVars, ibVars, orgVars, pipeVars>>

\* the objects a run does not use
XyzIdle ==
    /\ pt = XYZDefault
    /\ plane = <<D(0), D(0), D(0), D(0)>>
    /\ ret = <<>> /\ ret2 = <<>> /\ rot = <<>>
RectIdle ==
    /\ rect = RectBounds(D(0), D(0), D(0), D(0))
    /\ refl = <<>> /\ refl2 = <<>>
IbIdle ==
    /\ ibArgs = <<>>
    /\ ib = InclusiveBoundsDefault(D(0), D(0))
    /\ resBool = <<>> /\ resContains = <<>> /\ resOutside = <<>> /\ ibOut = <<>>

\* InputMeasurement and NormalizedMeasurement objects
InputMeasurement(screen, angles, lineNumber) ==
    [screen |-> screen, viewAnglesDegrees |-> angles, lineNumber |-> lineNumber]
NormalizedMeasurement(screen, point, lineNumber) ==
    [screen |-> screen, pointFromView |-> point, lineNumber |-> lineNumber]
\* InputMeasurements and NormalizedMeasurements objects
Measurements(inputSource, measurements) ==
    [inputSource |-> inputSource, measurements |-> measurements]

OrgIdle ==
    /\ meas = InputMeasurement(<<D(0), D(0)>>, <<D(0), D(0)>>, 0)
    /\ parent = Measurements(<<>>, <<>>)
    /\ origin = <<>> /\ resKnown = <<>> /\ orgOut = <<>>

\* struct Config with its default member initialisers; verifyAngles and the
\* parameters of the verification are the run's
Config(verifyAngles, xx, maxAngleDiffDegrees) ==
    [computeScreenBounds |-> TRUE, useFieldAngles |-> TRUE, toMeters |-> 1,
     depth |-> 2, verifyAngles |-> verifyAngles, xx |-> xx, xy |-> 0, yx |-> 0,
     yy |-> 1, maxAngleDiffDegrees |-> maxAngleDiffDegrees, verbose |-> FALSE]
\* struct ProjectionDescription: overlapPercent and cop have defaults
ProjectionDescription(hFOV, vFOV, copX) ==
    [hFOVDegrees |-> hFOV, vFOVDegrees |-> vFOV, overlapPercent |-> 100,
     cop |-> <<copX, <<1, 2>>>>]
\* struct ScreenDetails
ScreenDetails(screenPlane, screenLeft, screenRight, maxY) ==
    [screenPlane |-> screenPlane, screenLeft |-> screenLeft,
     screenRight |-> screenRight, maxY |-> maxY]

PipeIdle ==
    /\ cfg = Config(FALSE, 1, 0)
    /\ input = Measurements(<<>>, <<>>)
    /\ norm = <<>> /\ details = <<>> /\ proj = <<>> /\ mesh = <<>>
    /\ findings = <<>> /\ err = "" /\ pc = "idle"

\* finite doubles drawn as inputs
Coords == {D(i) : i \in -MaxCoord..MaxCoord}
Coefs == {D(i) : i \in -MaxCoef..MaxCoef}
\* with the negative zero
CoordsExt == Coords \cup {NegZero}
\* every kind of double: finite values, both zeros, both infinities, NaN
Vals == {D(i) : i \in -MaxVal..MaxVal} \cup {NegZero, Inf(1), Inf(-1), NaN}

\* ----------------------------------------------------- XYZ::projectOntoPlane
InitProject ==
    /\ pt \in {XYZ(a, b, c) : a \in Coords, b \in Coords, c \in Coords}
    /\ plane \in Coefs \X Coefs \X Coefs \X Coefs
    /\ ret = <<>>
    /\ ret2 = <<>>
    /\ rot = <<>>
    /\ RectIdle /\ IbIdle /\ OrgIdle /\ PipeIdle

\* r = pt.projectOntoPlane(A, B, C, D)
Project ==
    /\ ret = <<>>
    /\ ret' = <<projectOntoPlane(pt, plane[1], plane[2], plane[3], plane[4])>>
    /\ UNCHANGED <<pt, plane, ret2, rot, rectVars, ibVars, orgVars, pipeVars>>

\* r2 = r.projectOntoPlane(A, B, C, D)
Reproject ==
    /\ ret # <<>>
    /\ ret2 = <<>>
    /\ ret2' = <<projectOntoPlane(ret[1], plane[1], plane[2], plane[3], plane[4])>>
    /\ UNCHANGED <<pt, plane, ret, rot, rectVars, ibVars, orgVars, pipeVars>>

NextProject == Project \/ Reproject
SpecProject == InitProject /\ [][NextProject]_vars

Zero == D(0)
\* a == b for two points, component by component
XYZEq(a, b) == Eq(a.x, b.x) /\ Eq(a.y, b.y) /\ Eq(a.z, b.z)
XYZFinite(a) == IsFin(a.x) /\ IsFin(a.y) /\ IsFin(a.z)
\* A x + B y + C z + D == 0
OnPlane(p) == Eq(Add(PlaneDot(p, plane[1], plane[2], plane[3]), plane[4]), Zero)
\* the ray from the origin through p is parallel to the plane
Parallel(p) == Eq(PlaneDot(p, plane[1], plane[2], plane[3]), Zero)

\* C1: when A x + B y + C z != 0, pt.projectOntoPlane(A, B, C, D) is s * pt
\* with s = -D / (A x + B y + C z): every component is s times the component
\* of pt, s solves s * (A x + B y + C z) = -D, and the result satisfies the
\* plane equation (in the exact arithmetic of finite values); the call does
\* not modify pt.
C1_ProjectInv ==
    (ret # <<>> /\ ~Parallel(pt)) =>
        LET den == PlaneDot(pt, plane[1], plane[2], plane[3])
            s == Div(Neg(plane[4]), den)
            r == ret[1]
        IN  /\ Eq(Mul(s, den), Neg(plane[4]))
            /\ r.x = Mul(s, pt.x) /\ r.y = Mul(s, pt.y) /\ r.z = Mul(s, pt.z)
            /\ XYZFinite(r)
            /\ OnPlane(r)
C1_Project == []C1_ProjectInv /\ [][ret' # ret => pt' = pt]_vars
C1_Witness ==
    /\ ret # <<>> /\ ~Parallel(pt)
    /\ ~XYZEq(ret[1], pt) /\ ~Eq(ret[1].x, Zero) /\ ret[1].x.d > 1

\* C2: when A x + B y + C z == 0 (the ray is parallel to the plane, the
\* origin and D == 0 included) the returned point is not finite: at least one
\* of its components is an infinity or NaN.  Stated for both calls.
C2_ParallelNotFinite ==
    /\ (ret # <<>> /\ Parallel(pt)) => ~XYZFinite(ret[1])
    /\ (ret2 # <<>> /\ Parallel(ret[1])) => ~XYZFinite(ret2[1])
C2_Witness ==
    /\ ret # <<>> /\ Parallel(pt)
    /\ pt = XYZDefault /\ plane[4] = Zero /\ IsNaN(ret[1].x)
C2_WitnessInf ==
    /\ ret # <<>> /\ Parallel(pt) /\ IsInf(ret[1].x) /\ IsNaN(ret[1].y)

\* C3 as claimed: for every point and every plane, projecting the projection
\* returns the projection, and projecting a point on the plane returns it.
C3_IdempotentAll ==
    /\ ret2 # <<>> => XYZEq(ret2[1], ret[1])
    /\ (ret # <<>> /\ OnPlane(pt)) => XYZEq(ret[1], pt)

\* C3 amended: for a plane with D != 0 and a point whose ray is not parallel
\* to the plane, projecting the projection returns the projection; a point on
\* a plane with D != 0 projects to itself.
C3_Idempotent ==
    /\ (ret2 # <<>> /\ ~Eq(plane[4], Zero) /\ ~Parallel(pt)) => XYZEq(ret2[1], ret[1])
    /\ (ret # <<>> /\ ~Eq(plane[4], Zero) /\ OnPlane(pt)) => XYZEq(ret[1], pt)
C3_Witness ==
    /\ ret2 # <<>> /\ ~Eq(plane[4], Zero) /\ ~Parallel(pt)
    /\ ~OnPlane(pt) /\ ret[1].y.d > 1 /\ XYZEq(ret2[1], ret[1])

\* ------------------------------------------------------ XYZ::rotationAboutY
InitRotation ==
    /\ pt \in {XYZ(a, b, c) : a \in CoordsExt, b \in CoordsExt, c \in CoordsExt}
    /\ plane = <<Zero, Zero, Zero, Zero>>
    /\ ret = <<>>
    /\ ret2 = <<>>
    /\ rot = <<>>
    /\ RectIdle /\ IbIdle /\ OrgIdle /\ PipeIdle

\* a = pt.rotationAboutY()
RotationAboutY ==
    /\ rot = <<>>
    /\ rot' = <<rotationAboutY(pt)>>
    /\ UNCHANGED <<pt, plane, ret, ret2, rectVars, ibVars, orgVars, pipeVars>>

NextRotation == RotationAboutY
SpecRotation == InitRotation /\ [][NextRotation]_vars

InitRect ==
    /\ rect \in {RectBounds(l, r, t, b) : l \in Vals, r \in Vals, t \in Vals, b \in Vals}
    /\ refl = <<>>
    /\ refl2 = <<>>
    /\ XyzIdle /\ IbIdle /\ OrgIdle /\ PipeIdle

\* r = rect.reflectedHorizontally()
ReflectedHorizontally ==
    /\ refl = <<>>
    /\ refl' = <<reflectedHorizontally(rect)>>
    /\ UNCHANGED <<rect, refl2, xyzVars, ibVars, orgVars, pipeVars>>

\* r2 = r.reflectedHorizontally()
ReflectedAgain ==
    /\ refl # <<>>
    /\ refl2 = <<>>
    /\ refl2' = <<reflectedHorizontally(refl[1])>>
    /\ UNCHANGED <<rect, refl, xyzVars, ibVars, orgVars, pipeVars>>

NextRect == ReflectedHorizontally \/ ReflectedAgain
SpecRect == InitRect /\ [][NextRect]_vars

\* C10: reflectedHorizontally returns left = -right, right = -left, top and
\* bottom unchanged; it does not modify the receiver; reflecting twice gives
\* the original rectangle; left <= right before implies left <= right after.
C10_ReflectedInv ==
    /\ refl # <<>> =>
        /\ refl[1].left = Neg(rect.right)
        /\ refl[1].right = Neg(rect.left)
        /\ refl[1].top = rect.top
        /\ refl[1].bottom = rect.bottom
        /\ Le(rect.left, rect.right) => Le(refl[1].left, refl[1].right)
    /\ refl2 # <<>> => refl2[1] = rect
C10_Reflected ==
    /\ []C10_ReflectedInv
    /\ [][(refl' # refl \/ refl2' # refl2) => (rect' = rect /\ (refl # <<>> => refl' = refl))]_vars
C10_Witness ==
    /\ refl2 # <<>> /\ refl2[1] = rect
    /\ Lt(rect.left, rect.right) /\ Lt(Zero, rect.left) /\ IsFin(rect.right)
    /\ Lt(refl[1].left, refl[1].right) /\ ~Eq(rect.top, rect.bottom)

\* ------------------------------------------------------------ InclusiveBounds
\* after construction: by InclusiveBounds() (members not initialised hold any
\* values) or by InclusiveBounds(a, b)
InitBounds ==
    /\ ibArgs \in {<<>>} \cup (Vals \X Vals)
    /\ ib \in IF ibArgs = <<>>
              THEN {InclusiveBoundsDefault(m, x) : m \in Vals, x \in Vals}
              ELSE {InclusiveBounds(ibArgs[1], ibArgs[2])}
    /\ resBool = <<>> /\ resContains = <<>> /\ resOutside = <<>> /\ ibOut = <<>>
    /\ XyzIdle /\ RectIdle /\ OrgIdle /\ PipeIdle

\* static_cast<bool>(ib)
ToBool ==
    /\ resBool = <<>>
    /\ resBool' = <<toBool(ib)>>
    /\ UNCHANGED <<ibArgs, ib, resContains, resOutside, ibOut, xyzVars, rectVars, orgVars, pipeVars>>

\* ib.contains(v)
Contains ==
    /\ resContains = <<>>
    /\ \E v \in Vals : resContains' = <<v, contains(ib, v)>>
    /\ UNCHANGED <<ibArgs, ib, resBool, resOutside, ibOut, xyzVars, rectVars, orgVars, pipeVars>>

\* ib.outside(v)
Outside ==
    /\ resOutside = <<>>
    /\ \E v \in Vals : resOutside' = <<v, outside(ib, v)>>
    /\ UNCHANGED <<ibArgs, ib, resBool, resContains, ibOut, xyzVars, rectVars, orgVars, pipeVars>>

\* os << ib
InsertBounds ==
    /\ ibOut = <<>>
    /\ ibOut' = <<PrintBounds(ib)>>
    /\ UNCHANGED <<ibArgs, ib, resBool, resContains, resOutside, xyzVars, rectVars, orgVars, pipeVars>>

NextBounds == ToBool \/ Contains \/ Outside \/ InsertBounds
SpecBounds == InitBounds /\ [][NextBounds]_vars

Unbounded == <<"[", "unbounded", "]">>

\* C5: a default-constructed InclusiveBounds converts to false, contains
\* every value and has no value outside; one constructed from two values
\* converts to true; operator<< prints "[unbounded]" exactly for the
\* default-constructed one.
C5_UnboundedDistinct ==
    /\ resBool # <<>> => (resBool[1] <=> ibArgs # <<>>)
    /\ (ibArgs = <<>> /\ resContains # <<>>) => resContains[2]
    /\ (ibArgs = <<>> /\ resOutside # <<>>) => ~resOutside[2]
    /\ ibOut # <<>> => (ibOut[1] = Unbounded <=> ibArgs = <<>>)
C5_Witness ==
    /\ ibArgs = <<>> /\ resBool = <<FALSE>> /\ ibOut = <<Unbounded>>
    /\ resContains # <<>> /\ resContains[2] /\ IsNaN(resContains[1])
    /\ resOutside # <<>> /\ ~resOutside[2]
C5_WitnessRange ==
    /\ ibArgs # <<>> /\ Eq(ibArgs[1], ibArgs[2]) /\ resBool = <<TRUE>>
    /\ ibOut # <<>> /\ ibOut[1] # Unbounded

\* C8: for every InclusiveBounds and every value v, outside(v) is the
\* negation of contains(v).
C8_OutsideIsNotContains ==
    (resContains # <<>> /\ resOutside # <<>> /\ resContains[1] = resOutside[1])
        => (resOutside[2] <=> ~resContains[2])

MinOf(a, b) == IF Lt(b, a) THEN b ELSE a
MaxOf(a, b) == IF Lt(a, b) THEN b ELSE a
\* two bounds no member function tells apart
SameBounds(b1, b2) ==
    /\ toBool(b1) = toBool(b2)
    /\ Eq(getMin(b1), getMin(b2)) /\ Eq(getMax(b1), getMax(b2))
    /\ \A v \in Vals : contains(b1, v) = contains(b2, v) /\ outside(b1, v) = outside(b2, v)
Normalized(a, b) ==
    /\ Eq(getMin(ib), MinOf(a, b)) /\ Eq(getMax(ib), MaxOf(a, b))
    /\ Le(getMin(ib), getMax(ib))
    /\ SameBounds(ib, InclusiveBounds(b, a))
    /\ resContains # <<>> =>
        (resContains[2] <=> (Le(MinOf(a, b), resContains[1]) /\ Le(resContains[1], MaxOf(a, b))))

\* C9 as claimed: for all values a and b, InclusiveBounds(a, b) has
\* getMin() = min(a, b) and getMax() = max(a, b), getMin() <= getMax(), is
\* the same as InclusiveBounds(b, a), and contains exactly [min, max].
C9_NormalizedAll == ibArgs # <<>> => Normalized(ibArgs[1], ibArgs[2])

\* C9 amended: the same for all values a and b neither of which is NaN.
C9_Normalized ==
    (ibArgs # <<>> /\ ~IsNaN(ibArgs[1]) /\ ~IsNaN(ibArgs[2]))
        => Normalized(ibArgs[1], ibArgs[2])
C9_Witness ==
    /\ ibArgs # <<>> /\ Lt(ibArgs[2], ibArgs[1]) /\ IsFin(ibArgs[2])
    /\ getMin(ib) = ibArgs[2] /\ getMax(ib) = ibArgs[1]
    /\ resContains # <<>> /\ resContains[2] /\ resContains[1] = getMax(ib)

\* ------------------------------------------------- getOrigin and DataOrigin
\* the atoms of an input source name
SrcAtoms == {"f", ":", "(unknown)"}
RECURSIVE SeqsUpTo(_, _)
SeqsUpTo(S, n) ==
    IF n = 0 THEN {<<>>}
    ELSE LET shorter == SeqsUpTo(S, n - 1)
         IN  shorter \cup {Append(q, a) : q \in shorter, a \in S}
Sources == SeqsUpTo(SrcAtoms, MaxSrcLen)
Lines == 0..MaxLine

\* a measurement of either kind and a collection of its kind, which holds
\* the measurement or is another collection
InitOrigin ==
    /\ meas \in {InputMeasurement(<<D(0), D(1)>>, <<D(1), D(0)>>, l) : l \in Lines}
            \cup {NormalizedMeasurement(<<D(0), D(1)>>, <<D(1), D(0), D(-1)>>, l) : l \in Lines}
    /\ parent \in {Measurements(src, ms) : src \in Sources, ms \in {<<>>, <<meas>>}}
    /\ origin = <<>> /\ resKnown = <<>> /\ orgOut = <<>>
    /\ XyzIdle /\ RectIdle /\ IbIdle /\ PipeIdle

\* o = meas.getOrigin(parent)
GetOrigin ==
    /\ origin = <<>>
    /\ origin' = <<getOrigin(meas, parent)>>
    /\ UNCHANGED <<meas, parent, resKnown, orgOut, xyzVars, rectVars, ibVars, pipeVars>>

\* o.known()
Known ==
    /\ origin # <<>>
    /\ resKnown = <<>>
    /\ resKnown' = <<known(origin[1])>>
    /\ UNCHANGED <<meas, parent, origin, orgOut, xyzVars, rectVars, ibVars, pipeVars>>

\* os << o
InsertOrigin ==
    /\ origin # <<>>
    /\ orgOut = <<>>
    /\ orgOut' = <<PrintOrigin(origin[1])>>
    /\ UNCHANGED <<meas, parent, origin, resKnown, xyzVars, rectVars, ibVars, pipeVars>>

NextOrigin == GetOrigin \/ Known \/ InsertOrigin
SpecOrigin == InitOrigin /\ [][NextOrigin]_vars

\* C7: m.getOrigin(c) is the DataOrigin (c.inputSource, m.lineNumber) and
\* leaves m and c unchanged; the origin is known iff c.inputSource is not
\* empty, whatever the line number; operator<< prints "(unknown)" exactly
\* when it is not known, and source, ":" and the line number otherwise.
C7_OriginInv ==
    /\ origin # <<>> =>
        /\ origin[1].inputSource = parent.inputSource
        /\ origin[1].lineNumber = meas.lineNumber
    /\ resKnown # <<>> => (resKnown[1] <=> parent.inputSource # <<>>)
    /\ orgOut # <<>> =>
        /\ orgOut[1] = <<"(unknown)">> <=> parent.inputSource = <<>>
        /\ parent.inputSource # <<>> =>
            orgOut[1] = parent.inputSource \o <<":">> \o FormatSize(meas.lineNumber)
C7_Origin == []C7_OriginInv /\ [][meas' = meas /\ parent' = parent]_vars
C7_Witness ==
    /\ resKnown = <<TRUE>> /\ origin[1].lineNumber = 0
    /\ parent.inputSource = <<"(unknown)">> /\ orgOut = <<<<"(unknown)", ":", "0">>>>
C7_WitnessUnknown ==
    /\ resKnown = <<FALSE>> /\ origin[1].lineNumber > 9 /\ "pointFromView" \in DOMAIN meas
    /\ orgOut = <<<<"(unknown)">>>>

\* ------------------------------------------------------------- the pipeline
\* normalize -> fit screen -> generate mesh -> validate, on the measurements
\* of one horizontal line of the screen.  Field angles are whole multiples k
\* of 45 degrees, so that tan is exact: tan(45 k) is 0, 1, not finite, -1 for
\* k = 0, 1, 2, 3 modulo 4.  A fraction is a pair <<numerator, denominator>>.
TanOf(k) ==
    LET r == k % 4
    IN  IF r = 0 THEN <<0>> ELSE IF r = 1 THEN <<1>> ELSE IF r = 3 THEN <<-1>> ELSE <<>>
\* the field angle, in multiples of 45 degrees, of a point at depth
AngleOfPoint(point) == point[1] \div (-point[3])

SeqMin(q) == CHOOSE v \in {q[i] : i \in DOMAIN q} : \A i \in DOMAIN q : v <= q[i]
SeqMax(q) == CHOOSE v \in {q[i] : i \in DOMAIN q} : \A i \in DOMAIN q : v >= q[i]
ScreenXs(ms) == [i \in DOMAIN ms |-> ms[i].screen[1]]
PointXs(ms) == [i \in DOMAIN ms |-> ms[i].pointFromView[1]]

\* normalization of one measurement: the screen position rescaled into [0, 1]
\* over the extent lo..hi of the batch, the angle turned into a point at depth
NormalizeOne(m, lo, hi, c) ==
    NormalizedMeasurement(
        <<<<m.screen[1] - lo, hi - lo>>, <<0, 1>>>>,
        <<c.depth * TanOf(m.viewAnglesDegrees[1])[1] * c.toMeters, 0, -(c.depth * c.toMeters)>>,
        m.lineNumber)

\* the screen fitted to the normalized measurements: the plane z = -depth,
\* the left-most and right-most points, and the projection they subtend
FitDetails(ms, c) ==
    ScreenDetails(<<0, 0, 1, c.depth * c.toMeters>>,
                  <<SeqMin(PointXs(ms)), 0, -(c.depth * c.toMeters)>>,
                  <<SeqMax(PointXs(ms)), 0, -(c.depth * c.toMeters)>>, 0)
FitProjection(d) ==
    ProjectionDescription(
        45 * (AngleOfPoint(d.screenRight) - AngleOfPoint(d.screenLeft)), 0,
        <<0 - d.screenLeft[1], d.screenRight[1] - d.screenLeft[1]>>)

\* one row per measurement: from the physical coordinate to the canonical
\* one, the field angle as a fraction of the fitted field of view
MeshOf(ms, d) ==
    [i \in DOMAIN ms |->
        <<ms[i].screen,
          <<<<AngleOfPoint(ms[i].pointFromView) - AngleOfPoint(d.screenLeft),
              AngleOfPoint(d.screenRight) - AngleOfPoint(d.screenLeft)>>, <<1, 2>>>>>>]

\* the difference, in degrees, between the angle measurement i was given and
\* the angle its fitted point implies along the reference axis xx
AngleDiff(i) ==
    45 * Abs(cfg.xx * AngleOfPoint(norm[i].pointFromView) - input.measurements[i].viewAnglesDegrees[1])
RECURSIVE Mismatches(_)
Mismatches(n) ==
    IF n = 0 THEN <<>>
    ELSE Mismatches(n - 1) \o
         (IF AngleDiff(n) > cfg.maxAngleDiffDegrees
          THEN <<<<getOrigin(norm[n], input), "AngleVerificationMismatch">>>>
          ELSE <<>>)

InitPipeline ==
    /\ cfg \in {Config(v, xx, tol) : v \in BOOLEAN, xx \in {1, -1}, tol \in {0, 90}}
    /\ \E n \in 1..MaxMeas :
        input \in {Measurements(<<"f">>,
                       [i \in 1..n |-> InputMeasurement(<<sx[i], 0>>, <<ax[i], 0>>, i)]) :
                   sx \in [1..n -> 0..1], ax \in [1..n -> -MaxAngle..MaxAngle]}
    /\ norm = <<>> /\ details = <<>> /\ proj = <<>> /\ mesh = <<>>
    /\ findings = <<>> /\ err = "" /\ pc = "loaded"
    /\ XyzIdle /\ RectIdle /\ IbIdle /\ OrgIdle

Fail(e) ==
    /\ err' = e
    /\ pc' = "failed"
    /\ UNCHANGED <<cfg, input, norm, details, proj, mesh, findings>>

Normalize ==
    /\ pc = "loaded"
    /\ LET ms == input.measurements
           lo == SeqMin(ScreenXs(ms))
           hi == SeqMax(ScreenXs(ms))
       IN  IF lo = hi THEN Fail("InvalidConfiguration")
           ELSE IF \E i \in DOMAIN ms : TanOf(ms[i].viewAnglesDegrees[1]) = <<>>
           THEN Fail("NumericFailure")
           ELSE /\ norm' = [i \in DOMAIN ms |-> NormalizeOne(ms[i], lo, hi, cfg)]
                /\ pc' = "normalized"
                /\ UNCHANGED <<cfg, input, details, proj, mesh, findings, err>>
    /\ UNCHANGED <<xyzVars, rectVars, ibVars, orgVars>>

FitScreen ==
    /\ pc = "normalized"
    /\ IF SeqMin(PointXs(norm)) = SeqMax(PointXs(norm)) THEN Fail("DegenerateGeometry")
       ELSE /\ details' = <<FitDetails(norm, cfg)>>
            /\ proj' = <<FitProjection(FitDetails(norm, cfg))>>
            /\ pc' = "fitted"
            /\ UNCHANGED <<cfg, input, norm, mesh, findings, err>>
    /\ UNCHANGED <<xyzVars, rectVars, ibVars, orgVars>>

GenerateMesh ==
    /\ pc = "fitted"
    /\ mesh' = MeshOf(norm, details[1])
    /\ pc' = "meshed"
    /\ UNCHANGED <<cfg, input, norm, details, proj, findings, err>>
    /\ UNCHANGED <<xyzVars, rectVars, ibVars, orgVars>>

\* a validation that ends the run when a measurement exceeds the tolerance
ValidateAborting ==
    /\ pc = "meshed"
    /\ findings' = IF cfg.verifyAngles THEN Mismatches(Len(norm)) ELSE <<>>
    /\ IF findings' # <<>>
       THEN err' = "AngleVerificationMismatch" /\ pc' = "failed"
       ELSE pc' = "done" /\ UNCHANGED err
    /\ UNCHANGED <<cfg, input, norm, details, proj, mesh>>
    /\ UNCHANGED <<xyzVars, rectVars, ibVars, orgVars>>

Validate ==
    /\ pc = "meshed"
    /\ findings' = IF cfg.verifyAngles THEN Mismatches(Len(norm)) ELSE <<>>
    /\ pc' = "done"
    /\ UNCHANGED <<cfg, input, norm, details, proj, mesh, err>>
    /\ UNCHANGED <<xyzVars, rectVars, ibVars, orgVars>>

NextPipeline == Normalize \/ FitScreen \/ GenerateMesh \/ Validate
SpecPipeline == InitPipeline /\ [][NextPipeline]_vars

\* C6: validation is diagnostic.  Once the mesh is generated the run always
\* ends "done" without an error, whatever the number of mismatches; the
\* validation step leaves details, proj and mesh unchanged; and at the end
\* they are the values fitted from the measurements alone, the same with
\* verifyAngles set or unset.  Mismatches are only reported in findings.
C6_ValidateInv ==
    /\ pc = "done" =>
        LET unset == [cfg EXCEPT !.verifyAngles = FALSE]
        IN  /\ err = ""
            /\ details = <<FitDetails(norm, unset)>>
            /\ proj = <<FitProjection(FitDetails(norm, unset))>>
            /\ mesh = MeshOf(norm, FitDetails(norm, unset))
            /\ Len(mesh) = Len(input.measurements)
            /\ ~cfg.verifyAngles => findings = <<>>
    /\ pc = "failed" => mesh = <<>>
====
